---- MODULE Spec2Model ----
(***************************************************************************)
(* Species-counterpoint generator: music primitives (counterpoint_utils),  *)
(* the five species validators (counterpoint_rules) and the genetic search *)
(* with its refinement pass (counterpoint_generator).                      *)
(*                                                                         *)
(* A Note is a record [pitch, duration, position]; duration and position   *)
(* are Fractions, kept as normalised pairs <<numerator, denominator>>.     *)
(* A Python exception is modelled as a result whose `raised` field names   *)
(* the exception; `raised = "none"` is a normal return.                    *)
(* Fitness values are kept in hundredths (1.0 is 100, 0.1 is 10).          *)
(***************************************************************************)
EXTENDS Integers, Sequences, FiniteSets, TLC

VARIABLES
    \* generate_counterpoint: arguments, locals and position in the function
    cf, species, mode, popSize, maxGen,
    graph, population, scores, parents, newPop, gen, rounds,
    best, result, err, pc, dev, perfect,
    \* a single call of a validator, of crossover or of mutate
    call, ret

vars == <<cf, species, mode, popSize, maxGen, graph, population, scores,
          parents, newPop, gen, rounds, best, result, err, pc, dev, perfect,
          call, ret>>

genVars == <<cf, species, mode, popSize, maxGen, graph, population, scores,
             parents, newPop, gen, rounds, best, result, err, pc, dev, perfect>>

(***************************************************************************)
(* Python helpers                                                          *)
(***************************************************************************)
Abs(x) == IF x < 0 THEN -x ELSE x

Min2(a, b) == IF a < b THEN a ELSE b

Max2(a, b) == IF a > b THEN a ELSE b

\* xs[i] with a 0-based index
At(xs, i) == xs[i + 1]

\* xs[-1]
Last(xs) == xs[Len(xs)]

\* xs[a:b] with 0-based bounds already clipped to 0..len
Slice(xs, a, b) == IF b <= a THEN <<>> ELSE SubSeq(xs, a + 1, b)

RECURSIVE Gcd(_, _)
Gcd(a, b) == IF b = 0 THEN a ELSE Gcd(b, a % b)

\* fractions.Fraction(n, d), d > 0: lowest terms
Fraction(n, d) == LET g == Gcd(Abs(n), d) IN <<n \div g, d \div g>>

FracAdd(a, b) == Fraction(a[1] * b[2] + b[1] * a[2], a[2] * b[2])

FracSub(a, b) == Fraction(a[1] * b[2] - b[1] * a[2], a[2] * b[2])

FracDiv(a, k) == Fraction(a[1], a[2] * k)

FracLeq(a, b) == a[1] * b[2] <= b[1] * a[2]

RECURSIVE SumDurations(_)
SumDurations(notes) ==
    IF notes = <<>> THEN Fraction(0, 1)
    ELSE FracAdd(notes[1].duration, SumDurations(Tail(notes)))

RECURSIVE SortedSeq(_)
SortedSeq(S) ==
    IF S = {} THEN <<>>
    ELSE LET m == CHOOSE x \in S : \A y \in S : x <= y
         IN <<m>> \o SortedSeq(S \ {m})

(***************************************************************************)
(* counterpoint_utils                                                      *)
(***************************************************************************)
Note(pitch, duration, position) ==
    [pitch |-> pitch, duration |-> duration, position |-> position]

UNISON == 0
MINOR_SECOND == 1
MAJOR_SECOND == 2
MINOR_THIRD == 3
MAJOR_THIRD == 4
PERFECT_FOURTH == 5
TRITONE == 6
PERFECT_FIFTH == 7
MINOR_SIXTH == 8
MAJOR_SIXTH == 9
OCTAVE == 12

AllSpecies == {"FIRST", "SECOND", "THIRD", "FOURTH", "FIFTH"}

ModeOffsets(m) ==
    CASE m = "IONIAN"     -> {0, 2, 4, 5, 7, 9, 11}
      [] m = "DORIAN"     -> {0, 2, 3, 5, 7, 9, 10}
      [] m = "PHRYGIAN"   -> {0, 1, 3, 5, 7, 8, 10}
      [] m = "LYDIAN"     -> {0, 2, 4, 6, 7, 9, 11}
      [] m = "MIXOLYDIAN" -> {0, 2, 4, 5, 7, 9, 10}
      [] m = "AEOLIAN"    -> {0, 2, 3, 5, 7, 8, 10}
      [] m = "LOCRIAN"    -> {0, 1, 3, 5, 6, 8, 10}

calculate_interval(pitch1, pitch2) == Abs(pitch1 - pitch2) % 12

is_perfect_consonance(interval) == interval \in {UNISON, PERFECT_FIFTH, OCTAVE}

is_imperfect_consonance(interval) ==
    interval \in {MINOR_THIRD, MAJOR_THIRD, MINOR_SIXTH, MAJOR_SIXTH}

is_consonant(interval) ==
    is_perfect_consonance(interval) \/ is_imperfect_consonance(interval)

is_passing_tone(prev_pitch, curr_pitch, next_pitch) ==
    \/ (prev_pitch < curr_pitch /\ curr_pitch < next_pitch)
    \/ (prev_pitch > curr_pitch /\ curr_pitch > next_pitch)

check_parallel_motion(prev_cp, curr_cp, prev_cf, curr_cf) ==
    LET prev_interval == calculate_interval(prev_cp, prev_cf)
        curr_interval == calculate_interval(curr_cp, curr_cf)
    IN /\ is_perfect_consonance(prev_interval)
       /\ is_perfect_consonance(curr_interval)
       /\ (curr_cp - prev_cp) * (curr_cf - prev_cf) > 0

is_valid_suspension_preparation(interval) ==
    interval \in {MINOR_THIRD, MAJOR_THIRD, PERFECT_FOURTH, PERFECT_FIFTH,
                  MINOR_SIXTH, MAJOR_SIXTH}

is_valid_suspension(interval) ==
    interval \in {MINOR_SECOND, MAJOR_SECOND, PERFECT_FOURTH, TRITONE}

is_valid_suspension_resolution(interval) ==
    interval \in {MINOR_THIRD, MAJOR_THIRD, PERFECT_FIFTH, MINOR_SIXTH, MAJOR_SIXTH}

is_downward_resolution(prev_pitch, curr_pitch) == curr_pitch < prev_pitch

is_strong_beat(position) == position[1] % position[2] = 0

is_in_mode(pitch, tonic, m) == ((pitch - tonic) % 12) \in ModeOffsets(m)

\* the sequence of candidate notes for one cantus-firmus note, lowest pitch first
generate_possible_notes(cf_note, sp, m) ==
    LET possible_pitches ==
            SortedSeq({p \in (cf_note.pitch - 12)..(cf_note.pitch + 12) :
                          is_in_mode(p, cf_note.pitch, m)})
        duration ==
            CASE sp = "FIRST"  -> cf_note.duration
              [] sp = "SECOND" -> FracDiv(cf_note.duration, 2)
              [] sp = "THIRD"  -> FracDiv(cf_note.duration, 4)
              [] sp = "FOURTH" -> cf_note.duration
              [] OTHER         -> cf_note.duration
    IN [k \in 1..Len(possible_pitches) |->
           Note(possible_pitches[k], duration, cf_note.position)]

(***************************************************************************)
(* counterpoint_rules: the five validators.  Each returns                  *)
(* [raised, valid, errors]; `errors` holds one <<message, place>> per      *)
(* failed check, in the order the code appends them (place -1: none).      *)
(***************************************************************************)
Raise(e) == [raised |-> e, valid |-> FALSE, errors |-> <<>>]

Return(errors) == [raised |-> "none", valid |-> (Len(errors) = 0), errors |-> errors]

Msg(text, place) == <<text, place>>

\* the two "Check beginning and ending" tests every validator ends with
begin_end_errors(counterpoint, cantus_firmus) ==
    (IF ~is_perfect_consonance(calculate_interval(counterpoint[1].pitch,
                                                  cantus_firmus[1].pitch))
     THEN <<Msg("Counterpoint should begin with a perfect consonance", -1)>>
     ELSE <<>>)
    \o
    (IF ~is_perfect_consonance(calculate_interval(Last(counterpoint).pitch,
                                                  Last(cantus_firmus).pitch))
     THEN <<Msg("Counterpoint should end with a perfect consonance", -1)>>
     ELSE <<>>)

\* body of the first-species loop for the 0-based index i
first_species_note_errors(counterpoint, cantus_firmus, i) ==
    LET cp_note == At(counterpoint, i)
        cf_note == At(cantus_firmus, i)
        interval == calculate_interval(cp_note.pitch, cf_note.pitch)
    IN (IF cp_note.duration # cf_note.duration
        THEN <<Msg("Note duration mismatch", i)>> ELSE <<>>)
       \o
       (IF ~is_consonant(interval)
        THEN <<Msg("Dissonant interval", i)>> ELSE <<>>)
       \o
       (IF i > 0 /\ check_parallel_motion(At(counterpoint, i - 1).pitch, cp_note.pitch,
                                          At(cantus_firmus, i - 1).pitch, cf_note.pitch)
        THEN <<Msg("Parallel perfect consonance", i)>> ELSE <<>>)

\* for i, (cp_note, cf_note) in enumerate(zip(counterpoint, cantus_firmus))
RECURSIVE first_species_loop(_, _, _)
first_species_loop(counterpoint, cantus_firmus, i) ==
    IF i >= Min2(Len(counterpoint), Len(cantus_firmus)) THEN <<>>
    ELSE first_species_note_errors(counterpoint, cantus_firmus, i)
         \o first_species_loop(counterpoint, cantus_firmus, i + 1)

\* the intervals the penultimate-measure check lets pass
PenultimateAllowed == {MINOR_SIXTH, MAJOR_SIXTH}

first_species_penultimate_errors(counterpoint, cantus_firmus) ==
    LET penultimate_interval ==
            calculate_interval(counterpoint[Len(counterpoint) - 1].pitch,
                               cantus_firmus[Len(cantus_firmus) - 1].pitch)
    IN IF penultimate_interval \notin PenultimateAllowed
       THEN <<Msg("Penultimate measure should be a major sixth or minor third", -1)>>
       ELSE <<>>

check_first_species_rules(counterpoint, cantus_firmus) ==
    LET length_errors ==
            IF Len(counterpoint) # Len(cantus_firmus)
            THEN <<Msg("Counterpoint should have the same number of notes as the cantus firmus", -1)>>
            ELSE <<>>
        loop_errors == first_species_loop(counterpoint, cantus_firmus, 0)
    IN IF Len(counterpoint) = 0 \/ Len(cantus_firmus) = 0
       THEN Raise("IndexError")               \* counterpoint[0], cantus_firmus[0]
       ELSE IF Len(counterpoint) > 1 /\ Len(cantus_firmus) < 2
       THEN Raise("IndexError")               \* cantus_firmus[-2]
       ELSE Return(length_errors \o loop_errors
                   \o begin_end_errors(counterpoint, cantus_firmus)
                   \o (IF Len(counterpoint) > 1
                       THEN first_species_penultimate_errors(counterpoint, cantus_firmus)
                       ELSE <<>>))

\* body of the second-species loop for the 0-based strong-beat index i
second_species_pair_errors(counterpoint, cantus_firmus, i) ==
    LET cp_strong == At(counterpoint, i)
        cf_note == At(cantus_firmus, i \div 2)
        strong_interval == calculate_interval(cp_strong.pitch, cf_note.pitch)
        cp_weak == At(counterpoint, i + 1)
        weak_interval == calculate_interval(cp_weak.pitch, cf_note.pitch)
        next_pitch == IF i + 2 < Len(counterpoint)
                      THEN At(counterpoint, i + 2).pitch ELSE cf_note.pitch
    IN (IF ~is_consonant(strong_interval)
        THEN <<Msg("Dissonant interval on strong beat", i)>> ELSE <<>>)
       \o
       (IF /\ i + 1 < Len(counterpoint)
           /\ ~is_consonant(weak_interval)
           /\ ~(weak_interval \in {2, 11}
                /\ is_passing_tone(cp_strong.pitch, cp_weak.pitch, next_pitch))
        THEN <<Msg("Invalid weak beat interval", i + 1)>> ELSE <<>>)

\* for i in range(0, len(counterpoint), 2); the result is <<raised, errors>>
RECURSIVE second_species_loop(_, _, _)
second_species_loop(counterpoint, cantus_firmus, i) ==
    IF i >= Len(counterpoint) THEN <<"none", <<>>>>
    ELSE IF i \div 2 >= Len(cantus_firmus) THEN <<"IndexError", <<>>>>
    ELSE LET rest == second_species_loop(counterpoint, cantus_firmus, i + 2)
         IN <<rest[1],
              second_species_pair_errors(counterpoint, cantus_firmus, i) \o rest[2]>>

check_second_species_rules(counterpoint, cantus_firmus) ==
    LET length_errors ==
            IF Len(counterpoint) # 2 * Len(cantus_firmus)
            THEN <<Msg("Counterpoint should have twice as many notes as the cantus firmus", -1)>>
            ELSE <<>>
        loop == second_species_loop(counterpoint, cantus_firmus, 0)
    IN IF loop[1] # "none" THEN Raise(loop[1])
       ELSE IF Len(counterpoint) = 0 \/ Len(cantus_firmus) = 0
       THEN Raise("IndexError")
       ELSE Return(length_errors \o loop[2]
                   \o begin_end_errors(counterpoint, cantus_firmus))

\* the "for j in range(1, 4)" checks of one third-species group starting at i
RECURSIVE third_species_weak_errors(_, _, _, _)
third_species_weak_errors(counterpoint, cantus_firmus, i, j) ==
    IF j >= 4 THEN <<>>
    ELSE LET cf_note == At(cantus_firmus, i \div 4)
             interval == calculate_interval(At(counterpoint, i + j).pitch, cf_note.pitch)
             next_pitch == IF i + j + 1 < Len(counterpoint)
                           THEN At(counterpoint, i + j + 1).pitch ELSE cf_note.pitch
         IN (IF /\ i + j < Len(counterpoint)
                /\ ~is_consonant(interval)
                /\ ~(interval \in {2, 11}
                     /\ is_passing_tone(At(counterpoint, i + j - 1).pitch,
                                        At(counterpoint, i + j).pitch, next_pitch))
             THEN <<Msg("Invalid interval", i + j)>> ELSE <<>>)
            \o third_species_weak_errors(counterpoint, cantus_firmus, i, j + 1)

\* for i in range(0, len(counterpoint), 4); the result is <<raised, errors>>
RECURSIVE third_species_loop(_, _, _)
third_species_loop(counterpoint, cantus_firmus, i) ==
    IF i >= Len(counterpoint) THEN <<"none", <<>>>>
    ELSE IF i \div 4 >= Len(cantus_firmus) THEN <<"IndexError", <<>>>>
    ELSE LET cf_note == At(cantus_firmus, i \div 4)
             strong_interval == calculate_interval(At(counterpoint, i).pitch, cf_note.pitch)
             rest == third_species_loop(counterpoint, cantus_firmus, i + 4)
         IN <<rest[1],
              (IF ~is_consonant(strong_interval)
               THEN <<Msg("Dissonant interval on strong beat", i)>> ELSE <<>>)
              \o third_species_weak_errors(counterpoint, cantus_firmus, i, 1)
              \o rest[2]>>

check_third_species_rules(counterpoint, cantus_firmus) ==
    LET length_errors ==
            IF Len(counterpoint) # 4 * Len(cantus_firmus)
            THEN <<Msg("Counterpoint should have four times as many notes as the cantus firmus", -1)>>
            ELSE <<>>
        loop == third_species_loop(counterpoint, cantus_firmus, 0)
    IN IF loop[1] # "none" THEN Raise(loop[1])
       ELSE IF Len(counterpoint) = 0 \/ Len(cantus_firmus) = 0
       THEN Raise("IndexError")
       ELSE Return(length_errors \o loop[2]
                   \o begin_end_errors(counterpoint, cantus_firmus))

\* "if resolution_interval and not is_valid_suspension_resolution(...)": the
\* interval is None without a next note, and None and 0 are both false
resolution_interval_reported(has_next, resolution_interval) ==
    /\ has_next
    /\ resolution_interval # 0
    /\ ~is_valid_suspension_resolution(resolution_interval)

\* body of the fourth-species loop for the 0-based index i > 0
fourth_species_suspension_errors(counterpoint, cantus_firmus, i) ==
    LET cf_note == At(cantus_firmus, i \div 2)
        prev_cp == At(counterpoint, i - 1)
        curr_cp == At(counterpoint, i)
        has_next == i + 1 < Len(counterpoint)
        next_cp == At(counterpoint, i + 1)
        preparation_interval ==
            calculate_interval(prev_cp.pitch, At(cantus_firmus, (i - 1) \div 2).pitch)
        suspension_interval == calculate_interval(curr_cp.pitch, cf_note.pitch)
        resolution_interval == calculate_interval(next_cp.pitch, cf_note.pitch)
    IN (IF ~is_valid_suspension_preparation(preparation_interval)
        THEN <<Msg("Invalid preparation interval", i - 1)>> ELSE <<>>)
       \o
       (IF ~is_valid_suspension(suspension_interval)
        THEN <<Msg("Invalid suspension interval", i)>> ELSE <<>>)
       \o
       (IF has_next /\ resolution_interval_reported(has_next, resolution_interval)
        THEN <<Msg("Invalid resolution interval", i + 1)>> ELSE <<>>)
       \o
       (IF has_next /\ ~is_downward_resolution(curr_cp.pitch, next_cp.pitch)
        THEN <<Msg("Suspension not resolved downward", i + 1)>> ELSE <<>>)

\* for i in range(0, len(counterpoint), 2); the result is <<raised, errors>>
RECURSIVE fourth_species_loop(_, _, _)
fourth_species_loop(counterpoint, cantus_firmus, i) ==
    IF i >= Len(counterpoint) THEN <<"none", <<>>>>
    ELSE IF i \div 2 >= Len(cantus_firmus) THEN <<"IndexError", <<>>>>
    ELSE LET rest == fourth_species_loop(counterpoint, cantus_firmus, i + 2)
         IN <<rest[1],
              (IF i > 0
               THEN fourth_species_suspension_errors(counterpoint, cantus_firmus, i)
               ELSE <<>>)
              \o rest[2]>>

check_fourth_species_rules(counterpoint, cantus_firmus) ==
    LET length_errors ==
            IF Len(counterpoint) # 2 * Len(cantus_firmus)
            THEN <<Msg("Counterpoint should have twice as many notes as the cantus firmus", -1)>>
            ELSE <<>>
        loop == fourth_species_loop(counterpoint, cantus_firmus, 0)
    IN IF loop[1] # "none" THEN Raise(loop[1])
       ELSE IF Len(counterpoint) = 0 \/ Len(cantus_firmus) = 0
       THEN Raise("IndexError")
       ELSE Return(length_errors \o loop[2]
                   \o begin_end_errors(counterpoint, cantus_firmus))

\* the "while current_measure < len(cantus_firmus) and ..." scan, from measure m
RECURSIVE fifth_species_measure(_, _, _)
fifth_species_measure(cantus_firmus, position, m) ==
    IF m < Len(cantus_firmus) /\ FracLeq(At(cantus_firmus, m).position, position)
    THEN fifth_species_measure(cantus_firmus, position, m + 1)
    ELSE m

\* The loop body for the first note (i = 0).  For every later note the test
\* "i > 0 and cp_note.position - counterpoint[i-1].position == Fraction(1, 2)"
\* evaluates the name Fraction, which counterpoint_rules never imports:
\* NameError.  The suspension handling behind that test is never reached.
fifth_species_first_note_errors(counterpoint, cantus_firmus) ==
    LET cp_note == counterpoint[1]
        current_measure == fifth_species_measure(cantus_firmus, cp_note.position, 0)
        \* cantus_firmus[current_measure - 1]; index -1 is the last note
        cf_note == IF current_measure = 0 THEN Last(cantus_firmus)
                   ELSE At(cantus_firmus, current_measure - 1)
        interval == calculate_interval(cp_note.pitch, cf_note.pitch)
    IN IF is_strong_beat(cp_note.position) /\ ~is_consonant(interval)
       THEN <<Msg("Dissonant interval on strong beat", cp_note.position)>>
       ELSE <<>>

check_fifth_species_rules(counterpoint, cantus_firmus) ==
    LET duration_errors ==
            IF SumDurations(counterpoint) # SumDurations(cantus_firmus)
            THEN <<Msg("Total duration of counterpoint should match the cantus firmus", -1)>>
            ELSE <<>>
    IN IF Len(counterpoint) = 0 THEN Raise("IndexError")        \* counterpoint[0]
       ELSE IF Len(cantus_firmus) = 0 THEN Raise("IndexError")  \* cantus_firmus[-1]
       ELSE IF Len(counterpoint) > 1 THEN Raise("NameError")    \* Fraction, at i = 1
       ELSE Return(duration_errors
                   \o fifth_species_first_note_errors(counterpoint, cantus_firmus)
                   \o begin_end_errors(counterpoint, cantus_firmus))

(***************************************************************************)
(* counterpoint_generator: fitness                                         *)
(***************************************************************************)
\* the four placeholder sub-scores, each 0.5
evaluate_melodic_aspects(counterpoint) == 50

evaluate_harmonic_aspects(counterpoint, cantus_firmus) == 50

evaluate_mode_adherence(counterpoint, m) == 50

evaluate_musicality(counterpoint, cantus_firmus) == 50

\* the validator evaluate_fitness dispatches to
check_species_rules(counterpoint, cf_notes, sp) ==
    CASE sp = "FIRST"  -> check_first_species_rules(counterpoint, cf_notes)
      [] sp = "SECOND" -> check_second_species_rules(counterpoint, cf_notes)
      [] sp = "THIRD"  -> check_third_species_rules(counterpoint, cf_notes)
      [] sp = "FOURTH" -> check_fourth_species_rules(counterpoint, cf_notes)
      [] OTHER         -> check_fifth_species_rules(counterpoint, cf_notes)

\* the score of a counterpoint the validator declared valid
fitness_score(counterpoint, cf_notes, m, errors) ==
    LET score == (100 - Len(errors) * 10)
                 + (evaluate_melodic_aspects(counterpoint) * 30) \div 100
                 + (evaluate_harmonic_aspects(counterpoint, cf_notes) * 30) \div 100
                 + (evaluate_mode_adherence(counterpoint, m) * 20) \div 100
                 + (evaluate_musicality(counterpoint, cf_notes) * 20) \div 100
    IN Min2(score, 100)

\* a fitness that scores every candidate 1.0
evaluate_fitness_always_perfect(counterpoint, cf_notes, sp, m) ==
    [raised |-> "none", value |-> 100]

\* [raised, value]: value is the fitness in hundredths
evaluate_fitness(counterpoint, cf_notes, sp, m) ==
    LET checked == check_species_rules(counterpoint, cf_notes, sp)
    IN IF checked.raised # "none" THEN [raised |-> checked.raised, value |-> 0]
       ELSE IF ~checked.valid THEN [raised |-> "none", value |-> 0]
       ELSE [raised |-> "none",
             value |-> fitness_score(counterpoint, cf_notes, m, checked.errors)]

(***************************************************************************)
(* The pseudo-random source.  The outcomes of a draw are the distinct      *)
(* values it can return, in the order the code lists them: the elements    *)
(* of the sequence for random.choice, the integers from the lowest for     *)
(* random.randint, for one note of mutate first random.random() not below  *)
(* the rate and then random.random() below it with each delta.  Taking     *)
(* the k-th outcome deviates by k - 1 from the first one; `dev` is the     *)
(* sum of the deviations of the draws made so far, and a run draws any     *)
(* outcomes whose deviations sum to at most MaxDev.                        *)
(***************************************************************************)
MaxDev == 1

\* the 1-based outcomes a draw among n may take once the run deviated by d
Draws(n, d) == 1..Min2(n, 1 + MaxDev - d)

Cost(k) == k - 1

\* xs without the repetitions of a value after its first occurrence
RECURSIVE Distinct(_)
Distinct(xs) ==
    IF xs = <<>> THEN <<>>
    ELSE LET front == Distinct(SubSeq(xs, 1, Len(xs) - 1))
             x == xs[Len(xs)]
         IN IF \E k \in 1..Len(front) : front[k] = x THEN front ELSE Append(front, x)

(***************************************************************************)
(* counterpoint_generator: the candidate graph                             *)
(* A node is the pair <<cf_note, cp_note>>; graph.nodes keeps insertion    *)
(* order, which is the order networkx lists nodes and successors in.       *)
(***************************************************************************)
EmptyGraph == [nodes |-> <<>>, edges |-> {}]

get_nodes_at_position(g, position) ==
    SelectSeq(g.nodes, LAMBDA node : node[1].position = position)

successors(g, node) == SelectSeq(g.nodes, LAMBDA n : <<node, n>> \in g.edges)

\* a transition test that lets every pair of nodes pass
is_valid_transition_always(prev_node, current_node, sp, m) == TRUE

is_valid_transition(prev_node, current_node, sp, m) ==
    LET prev_cp == prev_node[2]
        curr_cf == current_node[1]
        curr_cp == current_node[2]
    IN /\ ~(Abs(prev_cp.pitch - curr_cp.pitch) > 12)
       /\ is_consonant(calculate_interval(curr_cp.pitch, curr_cf.pitch))

RECURSIVE add_nodes(_, _, _)
add_nodes(nodes, cf_note, cp_notes) ==
    IF cp_notes = <<>> THEN nodes
    ELSE LET node == <<cf_note, Head(cp_notes)>>
             present == \E k \in 1..Len(nodes) : nodes[k] = node
         IN add_nodes(IF present THEN nodes ELSE Append(nodes, node),
                      cf_note, Tail(cp_notes))

\* the body of "for i, cf_note in enumerate(cf_notes)" from the 0-based index i on
RECURSIVE graph_from(_, _, _, _, _)
graph_from(g, cf_notes, sp, m, i) ==
    IF i >= Len(cf_notes) THEN g
    ELSE LET cf_note == At(cf_notes, i)
             with_nodes == [g EXCEPT !.nodes =
                               add_nodes(g.nodes, cf_note,
                                         generate_possible_notes(cf_note, sp, m))]
             prev_nodes == get_nodes_at_position(with_nodes, At(cf_notes, i - 1).position)
             current_nodes == get_nodes_at_position(with_nodes, cf_note.position)
             new_edges == {<<prev_nodes[a], current_nodes[b]>> :
                              <<a, b>> \in {<<a, b>> \in (1..Len(prev_nodes)) \X (1..Len(current_nodes)) :
                                  is_valid_transition(prev_nodes[a], current_nodes[b], sp, m)}}
         IN graph_from(IF i > 0
                       THEN [with_nodes EXCEPT !.edges = with_nodes.edges \cup new_edges]
                       ELSE with_nodes,
                       cf_notes, sp, m, i + 1)

initialize_counterpoint_graph(cf_notes, sp, m) ==
    graph_from(EmptyGraph, cf_notes, sp, m, 0)

(***************************************************************************)
(* counterpoint_generator: seeding walks                                   *)
(***************************************************************************)
\* every line the "while True" walk can append from `node` on, with the
\* deviation count it ends with
RECURSIVE WalksFrom(_, _, _)
WalksFrom(g, node, d) ==
    LET next_nodes == successors(g, node)
    IN IF next_nodes = <<>> THEN {[line |-> <<node[2]>>, dev |-> d]}
       ELSE UNION {{[line |-> <<node[2]>> \o w.line, dev |-> w.dev] :
                       w \in WalksFrom(g, next_nodes[k], d + Cost(k))} :
                   k \in Draws(Len(next_nodes), d)}

\* one iteration of "for _ in range(population_size)"
SeedWalks(g, d) ==
    LET starts == get_nodes_at_position(g, Fraction(0, 1))
    IN UNION {WalksFrom(g, starts[k], d + Cost(k)) : k \in Draws(Len(starts), d)}

(***************************************************************************)
(* counterpoint_generator: selection, crossover, mutation                  *)
(***************************************************************************)
tournament_size == 5

\* the population indices a tournament can return: the sample is any
\* tournament_size distinct individuals in any order, max() keeps the first
\* of the best, so any individual that is a best of some sample can win
tournament_winners(fitness_scores) ==
    LET n == Len(fitness_scores)
        samples == {S \in SUBSET (1..n) : Cardinality(S) = tournament_size}
    IN {i \in 1..n : \E S \in samples :
            i \in S /\ \A j \in S : fitness_scores[j] <= fitness_scores[i]}

\* the winner of the sample population[:tournament_size], taken in order
first_tournament_winner(fitness_scores) ==
    CHOOSE i \in 1..tournament_size :
        /\ \A j \in 1..tournament_size : fitness_scores[j] <= fitness_scores[i]
        /\ \A j \in 1..(i - 1) : fitness_scores[j] < fitness_scores[i]

\* the lines one tournament can return, the winner of the sample
\* population[:5] first
tournament_outcomes(pop, fitness_scores) ==
    LET first == first_tournament_winner(fitness_scores)
        order == <<first>> \o SortedSeq(tournament_winners(fitness_scores) \ {first})
    IN Distinct([k \in 1..Len(order) |-> pop[order[k]]])

\* the winners of the remaining `slots` tournaments of select_parents
RECURSIVE SelectDraws(_, _, _)
SelectDraws(slots, outcomes, d) ==
    IF slots = 0 THEN {[list |-> <<>>, dev |-> d]}
    ELSE UNION {{[list |-> <<outcomes[k]>> \o rest.list, dev |-> rest.dev] :
                    rest \in SelectDraws(slots - 1, outcomes, d + Cost(k))} :
                k \in Draws(Len(outcomes), d)}

\* select_parents returns when the population holds a full tournament
select_parents_raises(pop) ==
    IF Len(pop) > 0 /\ Len(pop) < tournament_size THEN "ValueError:sample" ELSE "none"

\* the lists select_parents can return, each with the deviation count after it
select_parents(pop, fitness_scores, d) ==
    SelectDraws(Len(pop), tournament_outcomes(pop, fitness_scores), d)

\* random.randint(1, len(parent1) - 1)
crossover_points(parent1) == 1..(Len(parent1) - 1)

crossover_raises(parent1, parent2) ==
    IF Len(parent1) # Len(parent2) THEN "ValueError:length"
    ELSE IF crossover_points(parent1) = {} THEN "ValueError:randint"
    ELSE "none"

\* parent1[:crossover_point] + parent2[crossover_point:]
crossover(parent1, parent2, crossover_point) ==
    Slice(parent1, 0, crossover_point) \o Slice(parent2, crossover_point, Len(parent2))

MidiMax == 127

\* a replacement that is not clamped to the MIDI range
mutate_note_unclamped(note, mutation_rate, r, delta) ==
    IF r < mutation_rate
    THEN Note(note.pitch + delta, note.duration, note.position)
    ELSE note

\* one iteration of mutate's loop: r is random.random() in hundredths,
\* delta is random.choice([-2, -1, 1, 2])
mutate_note(note, mutation_rate, r, delta) ==
    IF r < mutation_rate
    THEN Note(Max2(0, Min2(MidiMax, note.pitch + delta)), note.duration, note.position)
    ELSE note

mutate(individual, mutation_rate, draws) ==
    [k \in 1..Len(individual) |->
        mutate_note(individual[k], mutation_rate, draws[k].r, draws[k].delta)]

\* random.choice([-2, -1, 1, 2])
MutationDeltas == <<-2, -1, 1, 2>>

\* the outcomes of the draws for one note: random() = 0.99 keeps the note
\* (no delta is drawn), random() = 0.0 replaces it by one of the deltas
MutationOutcomes ==
    <<[r |-> 99, delta |-> 0]>> \o [k \in 1..Len(MutationDeltas) |-> [r |-> 0, delta |-> MutationDeltas[k]]]

\* the draws of one mutate call over n notes once d draws deviated
RECURSIVE MutationDraws(_, _)
MutationDraws(n, d) ==
    IF n = 0 THEN {[draws |-> <<>>, dev |-> d]}
    ELSE UNION {{[draws |-> <<MutationOutcomes[k]>> \o rest.draws, dev |-> rest.dev] :
                    rest \in MutationDraws(n - 1, d + Cost(k))} :
                k \in Draws(Len(MutationOutcomes), d)}

mutation_rate == 10

(***************************************************************************)
(* counterpoint_generator: the refinement pass                             *)
(***************************************************************************)
MidiPitches == 128

\* evaluate_fitness([Note(pitch, ...)], Voice([cf_notes[i]]), species, mode)
local_fitness(counterpoint, cf_notes, sp, m, i, pitch) ==
    evaluate_fitness(<<Note(pitch, At(counterpoint, i).duration, At(counterpoint, i).position)>>,
                     <<At(cf_notes, i)>>, sp, m).value

\* <<best score, lowest pitch of the best score>> of a row: max() keeps the
\* first of the best
row_best(row) ==
    LET cells == {<<row[p], p>> : p \in 0..(MidiPitches - 1)}
        values == {c[1] : c \in cells}
        best_score == CHOOSE v \in values : \A w \in values : w <= v
        best_pitches == {c[2] : c \in {x \in cells : x[1] = best_score}}
    IN <<best_score, CHOOSE p \in best_pitches : \A q \in best_pitches : p <= q>>

\* max(range(128), key=lambda p: row[p])
ArgMax(row) == row_best(row)[2]

\* max(row)
RowMax(row) == row_best(row)[1]

\* the rows dp[0..n-1], each a function of the pitch, given the rows dp[0..i-1]
RECURSIVE dp_table(_, _, _, _, _)
dp_table(counterpoint, cf_notes, sp, m, dp) ==
    LET i == Len(dp)
        best_prev_score == IF i = 0 THEN 0 ELSE RowMax(dp[i])
        current == [pitch \in 0..(MidiPitches - 1) |->
                       local_fitness(counterpoint, cf_notes, sp, m, i, pitch)]
        row == [pitch \in 0..(MidiPitches - 1) |-> best_prev_score + current[pitch]]
    IN IF i >= Len(cf_notes) THEN dp
       ELSE dp_table(counterpoint, cf_notes, sp, m, Append(dp, row))

\* counterpoint[i] is read for every i < len(cf_notes)
optimize_raises(counterpoint, cf_notes) ==
    IF Len(counterpoint) < Len(cf_notes) \/ Len(counterpoint) = 0 \/ Len(cf_notes) = 0
    THEN "IndexError" ELSE "none"

\* a refinement that returns the line it was given
optimize_counterpoint_unchanged(counterpoint, cf_notes, sp, m) == counterpoint

optimize_counterpoint(counterpoint, cf_notes, sp, m) ==
    LET n == Len(cf_notes)
        dp == dp_table(counterpoint, cf_notes, sp, m, <<>>)
    IN [k \in 1..n |->
           LET i == k - 1
               best_pitch == ArgMax(dp[k])
           IN IF i = n - 1
              THEN Note(best_pitch, Last(counterpoint).duration, Last(counterpoint).position)
              ELSE Note(best_pitch, At(counterpoint, i).duration, At(counterpoint, i).position)]

(***************************************************************************)
(* generate_counterpoint as a state machine                                *)
(* pc: "init" (line 30), "seed" (32), "loop" (34), "select" (43),          *)
(*     "breed" (46), "final" (54), "optimize" (55), "done" (57), "raised"  *)
(***************************************************************************)
MaxGen == 2

cantus(pitches, start) ==
    [k \in 1..Len(pitches) |->
        Note(pitches[k], Fraction(1, 1), Fraction(start + k - 1, 1))]

\* the cantus firmi a run is started with: one note; two notes; two notes a
\* ninth apart (the lowest candidate under the first has no successor); a
\* first note not at position 0; and, for the first species, whose validator
\* accepts no line of two notes, three notes
GenCantus(sp) ==
    {cantus(<<60>>, 0), cantus(<<60, 62>>, 0), cantus(<<60, 74>>, 0), cantus(<<60, 62>>, 1)}
    \cup (IF sp = "FIRST" THEN {cantus(<<60, 62, 64>>, 0)} ELSE {})

GenModes == {"IONIAN"}

PopSizes == {0, 1, 5}

NoCall == [op |-> "none"]

GenInit ==
    /\ species \in AllSpecies
    /\ cf \in GenCantus(species)
    /\ mode \in GenModes
    /\ popSize \in PopSizes
    /\ maxGen \in 0..MaxGen
    /\ graph = EmptyGraph
    /\ population = <<>>
    /\ scores = <<>>
    /\ parents = <<>>
    /\ newPop = <<>>
    /\ gen = 0
    /\ rounds = 0
    /\ best = <<>>
    /\ result = <<>>
    /\ err = "none"
    /\ pc = "init"
    /\ dev = 0
    /\ perfect = FALSE
    /\ call = NoCall
    /\ ret = NoCall

\* an exception leaves generate_counterpoint
Raised(e) == pc' = "raised" /\ err' = e

\* line 30: cp_graph = initialize_counterpoint_graph(...)
BuildGraph ==
    /\ pc = "init"
    /\ graph' = initialize_counterpoint_graph(cf, species, mode)
    /\ pc' = "seed"
    /\ UNCHANGED <<cf, species, mode, popSize, maxGen, population, scores, parents,
                   newPop, gen, rounds, best, result, err, dev, perfect, call, ret>>

\* generate_initial_population: one iteration of its for loop
SeedWalk ==
    /\ pc = "seed"
    /\ Len(population) < popSize
    /\ IF get_nodes_at_position(graph, Fraction(0, 1)) = <<>>
       THEN /\ Raised("IndexError:choice")
            /\ UNCHANGED <<population, dev>>
       ELSE /\ \E w \in SeedWalks(graph, dev) :
                   /\ population' = Append(population, w.line)
                   /\ dev' = w.dev
            /\ UNCHANGED <<pc, err>>
    /\ UNCHANGED <<cf, species, mode, popSize, maxGen, graph, scores, parents,
                   newPop, gen, rounds, best, result, perfect, call, ret>>

\* generate_initial_population returns; cp_graph is not read after line 32
\* and is dropped
SeedDone ==
    /\ pc = "seed"
    /\ Len(population) >= popSize
    /\ pc' = "loop"
    /\ graph' = EmptyGraph
    /\ UNCHANGED <<cf, species, mode, popSize, maxGen, population, scores, parents,
                   newPop, gen, rounds, best, result, err, dev, perfect, call, ret>>

\* the fitness of every individual, in population order
population_fitness(pop) ==
    [k \in 1..Len(pop) |-> evaluate_fitness(pop[k], cf, species, mode)]

\* the first exception a list of evaluations raises, or "none"
first_raised(evaluations) ==
    IF \A k \in 1..Len(evaluations) : evaluations[k].raised = "none" THEN "none"
    ELSE LET k == CHOOSE k \in 1..Len(evaluations) :
                      /\ evaluations[k].raised # "none"
                      /\ \A j \in 1..(k - 1) : evaluations[j].raised = "none"
         IN evaluations[k].raised

\* max(population, key=fitness): the first of the fittest
first_best(pop, values) ==
    LET k == CHOOSE k \in 1..Len(pop) :
                 /\ \A j \in 1..Len(pop) : values[j] <= values[k]
                 /\ \A j \in 1..(k - 1) : values[j] < values[k]
    IN pop[k]

\* "for generation in range(max_generations)" is exhausted
LoopExhausted ==
    /\ pc = "loop"
    /\ gen >= maxGen
    /\ pc' = "final"
    /\ UNCHANGED <<cf, species, mode, popSize, maxGen, graph, population, scores, parents,
                   newPop, gen, rounds, best, result, err, dev, perfect, call, ret>>

\* a loop that never breaks on a perfect score
perfect_score_ignored(fitness_scores) == FALSE

\* line 40: max(fitness_scores) == 1.0
perfect_score_achieved(fitness_scores) ==
    \E k \in 1..Len(fitness_scores) :
        /\ fitness_scores[k] = 100
        /\ \A j \in 1..Len(fitness_scores) : fitness_scores[j] <= fitness_scores[k]

\* lines 35-41: score the population, stop on a perfect score; `perfect`
\* records that some scored population held an individual of fitness 1.0
Evaluate ==
    /\ pc = "loop"
    /\ gen < maxGen
    /\ LET evaluations == population_fitness(population)
           raised == first_raised(evaluations)
           values == [k \in 1..Len(population) |-> evaluations[k].value]
       IN IF raised # "none"
          THEN /\ Raised(raised)
               /\ UNCHANGED <<scores, rounds, perfect>>
          ELSE /\ scores' = values
               /\ rounds' = rounds + 1
               /\ IF Len(population) = 0
                  THEN /\ Raised("ValueError:max")
                       /\ UNCHANGED perfect
                  ELSE /\ perfect' = (perfect \/ \E k \in 1..Len(values) : values[k] = 100)
                       /\ pc' = IF perfect_score_achieved(values) THEN "final" ELSE "select"
                       /\ UNCHANGED err
    /\ UNCHANGED <<cf, species, mode, popSize, maxGen, graph, population, parents,
                   newPop, gen, best, result, dev, call, ret>>

\* line 43: parents = select_parents(population, fitness_scores)
SelectParents ==
    /\ pc = "select"
    /\ IF select_parents_raises(population) # "none"
       THEN /\ Raised(select_parents_raises(population))
            /\ UNCHANGED <<parents, newPop, dev>>
       ELSE /\ \E c \in select_parents(population, scores, dev) :
                   /\ parents' = c.list
                   /\ dev' = c.dev
            /\ newPop' = <<>>
            /\ pc' = "breed"
            /\ UNCHANGED err
    /\ UNCHANGED <<cf, species, mode, popSize, maxGen, graph, population, scores,
                   gen, rounds, best, result, perfect, call, ret>>

\* a refill that stops after its first child
refill_stops_at_once(new_population, population_size) == TRUE

\* line 46: "while len(new_population) < population_size" is false
refill_done(new_population, population_size) ==
    ~(Len(new_population) < population_size)

\* lines 46-52: one iteration of the refill loop; the iteration that fills the
\* new population also replaces the old one and ends the generation
Breed ==
    /\ pc = "breed"
    /\ Len(newPop) < popSize
    /\ \E i1 \in Draws(Len(Distinct(parents)), dev) :
       \E i2 \in Draws(Len(Distinct(parents)), dev + Cost(i1)) :
          LET parent1 == Distinct(parents)[i1]
              parent2 == Distinct(parents)[i2]
              d2 == dev + Cost(i1) + Cost(i2)
          IN IF crossover_raises(parent1, parent2) # "none"
             THEN /\ Raised(crossover_raises(parent1, parent2))
                  /\ dev' = d2
                  /\ UNCHANGED <<population, newPop, gen>>
             ELSE \E point \in crossover_points(parent1) \cap Draws(Len(parent1) - 1, d2) :
                  \E md \in MutationDraws(Len(parent1), d2 + Cost(point)) :
                     LET child == mutate(crossover(parent1, parent2, point),
                                         mutation_rate, md.draws)
                         filled == Append(newPop, child)
                     IN /\ dev' = md.dev
                        /\ IF ~refill_done(filled, popSize)
                           THEN /\ newPop' = filled
                                /\ UNCHANGED <<population, gen, pc>>
                           ELSE /\ population' = filled
                                /\ newPop' = <<>>
                                /\ gen' = gen + 1
                                /\ pc' = "loop"
                        /\ UNCHANGED err
    /\ UNCHANGED <<cf, species, mode, popSize, maxGen, graph, scores, parents,
                   rounds, best, result, perfect, call, ret>>

\* line 54: best_counterpoint = max(population, key=...)
PickBest ==
    /\ pc = "final"
    /\ LET evaluations == population_fitness(population)
           raised == first_raised(evaluations)
           values == [k \in 1..Len(population) |-> evaluations[k].value]
       IN IF raised # "none"
          THEN Raised(raised) /\ UNCHANGED best
          ELSE IF Len(population) = 0
          THEN Raised("ValueError:max") /\ UNCHANGED best
          ELSE /\ best' = first_best(population, values)
               /\ pc' = "optimize"
               /\ UNCHANGED err
    /\ UNCHANGED <<cf, species, mode, popSize, maxGen, graph, population, scores, parents,
                   newPop, gen, rounds, result, dev, perfect, call, ret>>

\* lines 55-57: refine the best line and return it
Optimize ==
    /\ pc = "optimize"
    /\ IF optimize_raises(best, cf) # "none"
       THEN Raised(optimize_raises(best, cf)) /\ UNCHANGED result
       ELSE /\ result' = optimize_counterpoint(best, cf, species, mode)
            /\ pc' = "done"
            /\ UNCHANGED err
    /\ UNCHANGED <<cf, species, mode, popSize, maxGen, graph, population, scores, parents,
                   newPop, gen, rounds, best, dev, perfect, call, ret>>

GenNext ==
    \/ BuildGraph
    \/ SeedWalk
    \/ SeedDone
    \/ LoopExhausted
    \/ Evaluate
    \/ SelectParents
    \/ Breed
    \/ PickBest
    \/ Optimize

SpecGen == GenInit /\ [][GenNext]_vars

(***************************************************************************)
(* Single calls of the validators, evaluate_fitness,                       *)
(* check_parallel_motion, crossover and mutate: `call` holds the operation *)
(* and its arguments, `ret` what it returned or raised.                    *)
(***************************************************************************)
MaxLen == 3

MaxMutLen == 2

\* every sequence of at most n elements of S
SeqsUpTo(S, n) == UNION {[1..k -> S] : k \in 0..n}

UnitPitches == {65, 67, 68, 69, 71, 72}

\* counterpoints of whole notes at positions 0, 1, 2, ...
UnitLines == {cantus(ps, 0) : ps \in SeqsUpTo(UnitPitches, MaxLen)}

UnitCantus ==
    {cantus(<<>>, 0), cantus(<<60>>, 0), cantus(<<60, 62>>, 0), cantus(<<60, 62, 64>>, 0)}

Validators ==
    {"check_first_species_rules", "check_second_species_rules",
     "check_third_species_rules", "check_fourth_species_rules",
     "check_fifth_species_rules"}

ValidatorCalls ==
    {[op |-> v, counterpoint |-> cp, cantus_firmus |-> c] :
        v \in Validators, cp \in UnitLines, c \in UnitCantus}

\* fourth-species counterpoints of four half notes over two whole notes: the
\* suspension on the second strong beat has a following note
SuspensionPitches == {60, 62, 64, 65, 67}

SuspensionLines ==
    {[k \in 1..4 |-> Note(ps[k], Fraction(1, 2), Fraction(k - 1, 2))] :
        ps \in [1..4 -> SuspensionPitches]}

SuspensionCalls ==
    {[op |-> "check_fourth_species_rules", counterpoint |-> cp,
      cantus_firmus |-> cantus(<<60, 62>>, 0)] : cp \in SuspensionLines}

FitnessCalls ==
    {[op |-> "evaluate_fitness", counterpoint |-> cp, cantus_firmus |-> c,
      species |-> sp, mode |-> m] :
        cp \in UnitLines, c \in UnitCantus, sp \in AllSpecies, m \in GenModes}

ParallelPitches == {60, 64, 67, 71}

ParallelCalls ==
    {[op |-> "check_parallel_motion", prev_cp |-> a, curr_cp |-> b,
      prev_cf |-> c, curr_cf |-> d] :
        a \in ParallelPitches, b \in ParallelPitches,
        c \in ParallelPitches, d \in ParallelPitches}

ParentLines == {cantus(ps, 0) : ps \in SeqsUpTo({60, 62}, MaxLen)}

CrossoverCalls ==
    {[op |-> "crossover", parent1 |-> p1, parent2 |-> p2] :
        p1 \in ParentLines, p2 \in ParentLines}

\* lines of up to MaxLen notes refined over one and two cantus-firmus notes
OptimizeCalls ==
    {[op |-> "optimize_counterpoint", counterpoint |-> cp, cantus_firmus |-> c,
      species |-> sp, mode |-> m] :
        cp \in ParentLines, c \in {cantus(<<60>>, 0), cantus(<<60, 62>>, 0)},
        sp \in AllSpecies, m \in GenModes}

\* pitches below, at, inside, at and above the MIDI range
MutPitches == {-3, 0, 60, 127, 130}

\* lines of half notes
MutLines ==
    {[k \in 1..Len(ps) |-> Note(ps[k], Fraction(1, 2), Fraction(k - 1, 2))] :
        ps \in SeqsUpTo(MutPitches, MaxMutLen)}

\* mutation rates in hundredths
MutRates == {0, 10, 100}

MutateCalls ==
    {[op |-> "mutate", individual |-> ind, mutation_rate |-> rate] :
        ind \in MutLines, rate \in MutRates}

\* values of random.random() in hundredths
UnitRandoms == {0, 50}

\* the draws for one note: random.choice is only called below the rate
UnitMutationOutcomes(rate) ==
    {[r |-> r, delta |-> IF r < rate THEN MutationDeltas[k] ELSE 0] :
        r \in UnitRandoms, k \in 1..Len(MutationDeltas)}

UnitCalls ==
    ValidatorCalls \cup SuspensionCalls \cup OptimizeCalls \cup FitnessCalls \cup ParallelCalls \cup CrossoverCalls \cup MutateCalls

UnitInit ==
    /\ call \in UnitCalls
    /\ ret = NoCall
    /\ pc = "call"
    /\ cf = <<>>
    /\ species = "FIRST"
    /\ mode = "IONIAN"
    /\ popSize = 0
    /\ maxGen = 0
    /\ graph = EmptyGraph
    /\ population = <<>>
    /\ scores = <<>>
    /\ parents = <<>>
    /\ newPop = <<>>
    /\ gen = 0
    /\ rounds = 0
    /\ best = <<>>
    /\ result = <<>>
    /\ err = "none"
    /\ dev = 0
    /\ perfect = FALSE

\* the call returns or raises `r`
Returns(r) ==
    /\ ret' = r
    /\ pc' = "returned"
    /\ UNCHANGED <<cf, species, mode, popSize, maxGen, graph, population, scores,
                   parents, newPop, gen, rounds, best, result, err, dev, perfect, call>>

CallFirstSpecies ==
    /\ pc = "call" /\ call.op = "check_first_species_rules"
    /\ Returns(check_first_species_rules(call.counterpoint, call.cantus_firmus))

CallSecondSpecies ==
    /\ pc = "call" /\ call.op = "check_second_species_rules"
    /\ Returns(check_second_species_rules(call.counterpoint, call.cantus_firmus))

CallThirdSpecies ==
    /\ pc = "call" /\ call.op = "check_third_species_rules"
    /\ Returns(check_third_species_rules(call.counterpoint, call.cantus_firmus))

CallFourthSpecies ==
    /\ pc = "call" /\ call.op = "check_fourth_species_rules"
    /\ Returns(check_fourth_species_rules(call.counterpoint, call.cantus_firmus))

CallFifthSpecies ==
    /\ pc = "call" /\ call.op = "check_fifth_species_rules"
    /\ Returns(check_fifth_species_rules(call.counterpoint, call.cantus_firmus))

CallEvaluateFitness ==
    /\ pc = "call" /\ call.op = "evaluate_fitness"
    /\ Returns(evaluate_fitness(call.counterpoint, call.cantus_firmus,
                                call.species, call.mode))

CallCheckParallelMotion ==
    /\ pc = "call" /\ call.op = "check_parallel_motion"
    /\ Returns([raised |-> "none",
                value |-> check_parallel_motion(call.prev_cp, call.curr_cp,
                                                call.prev_cf, call.curr_cf)])

CallCrossover ==
    /\ pc = "call" /\ call.op = "crossover"
    /\ IF crossover_raises(call.parent1, call.parent2) # "none"
       THEN Returns([raised |-> crossover_raises(call.parent1, call.parent2)])
       ELSE \E crossover_point \in crossover_points(call.parent1) :
               Returns([raised |-> "none",
                        value |-> crossover(call.parent1, call.parent2, crossover_point)])

CallMutate ==
    /\ pc = "call" /\ call.op = "mutate"
    /\ \E draws \in [1..Len(call.individual) -> UnitMutationOutcomes(call.mutation_rate)] :
           Returns([raised |-> "none",
                    value |-> mutate(call.individual, call.mutation_rate, draws),
                    draws |-> draws])

CallOptimize ==
    /\ pc = "call" /\ call.op = "optimize_counterpoint"
    /\ IF optimize_raises(call.counterpoint, call.cantus_firmus) # "none"
       THEN Returns([raised |-> optimize_raises(call.counterpoint, call.cantus_firmus)])
       ELSE Returns([raised |-> "none",
                     value |-> optimize_counterpoint(call.counterpoint, call.cantus_firmus,
                                                     call.species, call.mode)])

UnitNext ==
    \/ CallFirstSpecies
    \/ CallSecondSpecies
    \/ CallThirdSpecies
    \/ CallFourthSpecies
    \/ CallFifthSpecies
    \/ CallEvaluateFitness
    \/ CallCheckParallelMotion
    \/ CallCrossover
    \/ CallMutate
    \/ CallOptimize

SpecUnit == UnitInit /\ [][UnitNext]_vars

(***************************************************************************)
(* Properties of generate_counterpoint                                     *)
(***************************************************************************)
\* the number of counterpoint notes per cantus-firmus note a species asks for
RequiredRatio(sp) ==
    CASE sp = "FIRST"  -> 1
      [] sp = "SECOND" -> 2
      [] sp = "THIRD"  -> 4
      [] sp = "FOURTH" -> 2
      [] OTHER         -> 0

\* C1: whenever generate_counterpoint returns, the returned line has the
\* species' ratio times the cantus-firmus length (1x FIRST, 2x SECOND and
\* FOURTH, 4x THIRD); for FIFTH its summed duration is the cantus firmus'.
C1_ReturnedLength ==
    pc = "done" =>
        IF species = "FIFTH"
        THEN SumDurations(result) = SumDurations(cf)
        ELSE Len(result) = RequiredRatio(species) * Len(cf)

\* some line of the population is shorter than the cantus firmus
HasShortLine == \E k \in 1..Len(population) : Len(population[k]) < Len(cf)

\* C2: a line a seeding walk left shorter than the cantus firmus is carried
\* through crossover and the final refinement without generate_counterpoint
\* raising because of it.
C2_ShortLinesCarried ==
    ~(pc = "raised" /\ HasShortLine /\ err \in {"ValueError:length", "IndexError"})

\* the generational loop was left without an exception
LoopLeft == pc \in {"final", "optimize", "done"}

\* C3 (as stated): at most maxGen scoring rounds, and the loop stops after
\* strictly fewer than maxGen rounds if and only if some individual of a
\* scored population has fitness exactly 1.0.
C3_StopsEarlierIffPerfect ==
    /\ rounds <= maxGen
    /\ LoopLeft => ((rounds < maxGen) <=> perfect)

\* C3 (amended): at most maxGen scoring rounds; the loop is left after
\* fewer than maxGen rounds only if some individual of a scored population
\* has fitness exactly 1.0; and once a scored population holds such an
\* individual no further round, selection or refill is started.
C3_LoopTermination ==
    /\ rounds <= maxGen
    /\ (LoopLeft /\ rounds < maxGen) => perfect
    /\ perfect => pc \notin {"loop", "select", "breed"}

\* a run that returned after leaving the loop one round early on a perfect score
C3_Witness == pc = "done" /\ perfect /\ rounds >= 1 /\ rounds < maxGen

(***************************************************************************)
(* Properties of single calls                                              *)
(***************************************************************************)
Returned(ops) == pc = "returned" /\ call.op \in ops

\* C4: crossover of two parents of the same length n returns a child of
\* length n, a prefix of parent1 followed by the suffix of parent2 from the
\* same cut point in 1..n-1; parents of different lengths fail with the
\* length-mismatch error.
C4_Crossover ==
    Returned({"crossover"}) =>
        LET n == Len(call.parent1)
        IN IF Len(call.parent2) = n
           THEN /\ ret.raised = "none"
                /\ Len(ret.value) = n
                /\ \E cut \in 1..(n - 1) :
                       ret.value = SubSeq(call.parent1, 1, cut)
                                   \o SubSeq(call.parent2, cut + 1, n)
           ELSE ret.raised = "ValueError:length"

\* mutate replaced the note at index k
Replaced(k) == ret.draws[k].r < call.mutation_rate

\* mutate keeps the length and every duration and position, and leaves the
\* notes it does not replace unchanged
MutateFrame ==
    /\ ret.raised = "none"
    /\ Len(ret.value) = Len(call.individual)
    /\ \A k \in 1..Len(call.individual) :
           /\ ret.value[k].duration = call.individual[k].duration
           /\ ret.value[k].position = call.individual[k].position
           /\ ~Replaced(k) => ret.value[k] = call.individual[k]

\* C5 (as stated): mutate keeps length, durations and positions; every note
\* it replaces has a pitch within 0..127 and at most 2 semitones from the
\* original pitch; every other note is unchanged.
C5_MutateWithinTwoSemitones ==
    Returned({"mutate"}) =>
        /\ MutateFrame
        /\ \A k \in 1..Len(call.individual) :
               Replaced(k) =>
                   /\ ret.value[k].pitch \in 0..127
                   /\ Abs(ret.value[k].pitch - call.individual[k].pitch) <= 2

\* C5 (amended): mutate keeps length, durations and positions; every note
\* it replaces has a pitch within 0..127, no farther from the original
\* pitch than the original pitch is from 0..127 plus 2 semitones (so at
\* most 2 semitones when the original pitch is within 0..127); every other
\* note is unchanged.
C5_Mutate ==
    Returned({"mutate"}) =>
        /\ MutateFrame
        /\ \A k \in 1..Len(call.individual) :
               Replaced(k) =>
                   LET old == call.individual[k].pitch
                       outside == Max2(0, Max2(0 - old, old - 127))
                   IN /\ ret.value[k].pitch \in 0..127
                      /\ Abs(ret.value[k].pitch - old) <= outside + 2

\* a call that replaced a note above the MIDI range and one inside it
C5_Witness ==
    /\ Returned({"mutate"})
    /\ \E k \in 1..Len(call.individual) :
           Replaced(k) /\ call.individual[k].pitch = 130 /\ ret.value[k].pitch = 127
    /\ \E k \in 1..Len(call.individual) :
           Replaced(k) /\ call.individual[k].pitch = 60 /\ ret.value[k].pitch = 62

\* C6: a validator never raises; it returns (valid, violations) with
\* valid = (violations is empty), whatever the lengths of the two sequences.
C6_ValidatorsNeverRaise ==
    Returned(Validators) =>
        /\ ret.raised = "none"
        /\ ret.valid = (ret.errors = <<>>)

\* C7: check_first_species_rules accepts counterpoint 67,69,72 over cantus
\* firmus 60,62,64 with no violation and rejects 67,68,72 with at least one.
C7_ReferenceExample ==
    (Returned({"check_first_species_rules"})
        /\ call.cantus_firmus = cantus(<<60, 62, 64>>, 0)) =>
        /\ call.counterpoint = cantus(<<67, 69, 72>>, 0) =>
               (ret.raised = "none" /\ ret.valid /\ ret.errors = <<>>)
        /\ call.counterpoint = cantus(<<67, 68, 72>>, 0) =>
               (ret.raised = "none" /\ ~ret.valid /\ ret.errors # <<>>)

\* C8: check_parallel_motion(prev_cp, curr_cp, prev_cf, curr_cf) is true
\* exactly when the previous and the current vertical interval are perfect
\* consonances and the two voices move in the same direction; it is true for
\* (60,67,64,71) and false for (60,64,64,67).
C8_ParallelMotion ==
    Returned({"check_parallel_motion"}) =>
        LET args == <<call.prev_cp, call.curr_cp, call.prev_cf, call.curr_cf>>
        IN /\ ret.value =
                  (/\ Abs(call.prev_cp - call.prev_cf) % 12 \in {0, 7}
                   /\ Abs(call.curr_cp - call.curr_cf) % 12 \in {0, 7}
                   /\ (call.curr_cp - call.prev_cp) * (call.curr_cf - call.prev_cf) > 0)
           /\ args = <<60, 67, 64, 71>> => ret.value = TRUE
           /\ args = <<60, 64, 64, 67>> => ret.value = FALSE

\* the candidate has the length its species asks for and stands in a
\* perfect consonance with the cantus firmus at its first and last note
PassesHardGates(counterpoint, cantus_firmus, sp) ==
    /\ counterpoint # <<>>
    /\ cantus_firmus # <<>>
    /\ IF sp = "FIFTH"
       THEN SumDurations(counterpoint) = SumDurations(cantus_firmus)
       ELSE Len(counterpoint) = RequiredRatio(sp) * Len(cantus_firmus)
    /\ begin_end_errors(counterpoint, cantus_firmus) = <<>>

\* C9: a candidate that passes the hard gates and has n > 0 violations gets
\* the fitness min(1.0, 1.0 - 0.1 n + 0.5), which is above 0.0 (the four
\* sub-scores are 0.5 each and their weights sum to 1).
C9_PartialCredit ==
    Returned({"evaluate_fitness"}) =>
        LET checked == check_species_rules(call.counterpoint, call.cantus_firmus,
                                           call.species)
        IN (/\ checked.raised = "none"
            /\ checked.errors # <<>>
            /\ PassesHardGates(call.counterpoint, call.cantus_firmus, call.species)) =>
               /\ ret.raised = "none"
               /\ ret.value > 0
               /\ ret.value = Min2(100, 100 - 10 * Len(checked.errors) + 50)

PenultimateMessage ==
    Msg("Penultimate measure should be a major sixth or minor third", -1)

\* C10: for a counterpoint of at least two notes the penultimate-measure
\* check of check_first_species_rules passes exactly when the interval at
\* the second-to-last position is a major sixth (9) or a minor third (3).
C10_PenultimateCheck ==
    (Returned({"check_first_species_rules"})
        /\ ret.raised = "none"
        /\ Len(call.counterpoint) >= 2
        /\ Len(call.counterpoint) = Len(call.cantus_firmus)) =>
        LET cp == call.counterpoint
            c == call.cantus_firmus
            interval == Abs(cp[Len(cp) - 1].pitch - c[Len(c) - 1].pitch) % 12
            reported == \E k \in 1..Len(ret.errors) : ret.errors[k] = PenultimateMessage
        IN ~reported <=> interval \in {9, 3}

\* the 0-based even indices i > 0 of the call's counterpoint at which
\* check_fourth_species_rules checks a suspension that has a following note
ResolvedSuspensions ==
    {i \in 1..(Len(call.counterpoint) - 2) : i % 2 = 0}

\* C11: check_fourth_species_rules reports a violation for every checked
\* suspension with a following note unless the resolution's interval is one
\* of 3, 4, 7, 8, 9 and the resolving note is strictly lower than the
\* suspended one; a resolution onto interval 0 is reported as an invalid
\* resolution interval.
C11_SuspensionResolution ==
    (Returned({"check_fourth_species_rules"}) /\ ret.raised = "none") =>
        \A i \in ResolvedSuspensions :
            LET suspended == At(call.counterpoint, i).pitch
                resolving == At(call.counterpoint, i + 1).pitch
                interval == Abs(resolving - At(call.cantus_firmus, i \div 2).pitch) % 12
                invalid == \E k \in 1..Len(ret.errors) :
                               ret.errors[k] = Msg("Invalid resolution interval", i + 1)
                upward == \E k \in 1..Len(ret.errors) :
                              ret.errors[k] = Msg("Suspension not resolved downward", i + 1)
            IN /\ ~(interval \in {3, 4, 7, 8, 9} /\ resolving < suspended)
                      => (invalid \/ upward)
               /\ interval = 0 => invalid

(***************************************************************************)
(* Properties of the candidate graph and of the population                 *)
(***************************************************************************)
\* the 1-based index in the cantus firmus of the note a graph node stands over
PositionIndex(node) == CHOOSE k \in 1..Len(cf) : cf[k] = node[1]

GraphNodes == {graph.nodes[k] : k \in 1..Len(graph.nodes)}

\* initialize_counterpoint_graph has returned and no walk has started
GraphBuilt == pc = "seed" /\ population = <<>>

\* C12: every edge of the graph initialize_counterpoint_graph builds goes
\* from a node at cantus-firmus position i to a node at position i+1, and
\* two nodes at consecutive positions are joined exactly when their
\* candidate pitches differ by at most 12 semitones and the destination's
\* vertical interval is consonant.
C12_GraphEdges ==
    GraphBuilt =>
        /\ \A e \in graph.edges :
               /\ e[1] \in GraphNodes
               /\ e[2] \in GraphNodes
               /\ PositionIndex(e[2]) = PositionIndex(e[1]) + 1
        /\ \A a \in GraphNodes : \A b \in GraphNodes :
               PositionIndex(b) = PositionIndex(a) + 1 =>
                   (<<a, b>> \in graph.edges <=>
                       /\ Abs(a[2].pitch - b[2].pitch) <= 12
                       /\ (Abs(b[2].pitch - b[1].pitch) % 12) \in {0, 3, 4, 7, 8, 9})

\* a built graph in which some consecutive pair is joined, one is kept apart
\* by a leap over 12 semitones and one by a dissonant destination
C12_Witness ==
    /\ GraphBuilt
    /\ graph.edges # {}
    /\ \E a \in GraphNodes : \E b \in GraphNodes :
           /\ PositionIndex(b) = PositionIndex(a) + 1
           /\ Abs(a[2].pitch - b[2].pitch) > 12
           /\ <<a, b>> \notin graph.edges
    /\ \E a \in GraphNodes : \E b \in GraphNodes :
           /\ PositionIndex(b) = PositionIndex(a) + 1
           /\ Abs(a[2].pitch - b[2].pitch) <= 12
           /\ (Abs(b[2].pitch - b[1].pitch) % 12) \in {2, 5, 11}
           /\ <<a, b>> \notin graph.edges

\* C13: at the start of every generation and when the loop has ended the
\* population holds exactly population_size lines; a refill never holds more
\* than population_size children and goes on only while it holds fewer.
C13_PopulationSize ==
    /\ pc \in {"loop", "select", "breed", "final", "optimize", "done"}
           => Len(population) = popSize
    /\ Len(newPop) <= popSize
    /\ pc = "breed" => Len(newPop) < popSize

\* a refilled population of five lines at the start of a later generation
C13_Witness ==
    pc = "loop" /\ gen >= 1 /\ gen < maxGen /\ popSize = 5 /\ Len(population) = 5

\* every line of the population, of the selected parents and of the refill
HeldLines ==
    {population[k] : k \in 1..Len(population)}
    \cup {parents[k] : k \in 1..Len(parents)}
    \cup {newPop[k] : k \in 1..Len(newPop)}

\* C14: for SECOND, THIRD and FOURTH every line ever held has at most one
\* note per cantus-firmus note, every fitness score of every generation is
\* 0.0, the early exit is never taken, and a run that leaves the loop
\* without raising has performed exactly max_generations generations.
C14_NoEarlyExit ==
    species \in {"SECOND", "THIRD", "FOURTH"} =>
        /\ \A line \in HeldLines : Len(line) <= Len(cf)
        /\ \A k \in 1..Len(scores) : scores[k] = 0
        /\ ~perfect
        /\ LoopLeft => (rounds = maxGen /\ gen = maxGen)

\* a third-species run that returned after two full generations
C14_Witness ==
    /\ species = "THIRD"
    /\ pc = "done"
    /\ maxGen = 2
    /\ rounds = 2
    /\ Len(scores) = 5

(***************************************************************************)
(* Properties of the refinement pass                                       *)
(***************************************************************************)
\* the fitness of the single note of pitch p, shaped like `note`, over cf_note
SingleNoteFitness(p, note, cf_note, sp, m) ==
    evaluate_fitness(<<Note(p, note.duration, note.position)>>, <<cf_note>>, sp, m).value

\* the lowest pitch in 0..127 of the highest single-note fitness
LowestBestPitch(note, cf_note, sp, m) ==
    CHOOSE p \in 0..127 :
        /\ \A q \in 0..127 :
               SingleNoteFitness(q, note, cf_note, sp, m)
                   <= SingleNoteFitness(p, note, cf_note, sp, m)
        /\ \A q \in 0..(p - 1) :
               SingleNoteFitness(q, note, cf_note, sp, m)
                   < SingleNoteFitness(p, note, cf_note, sp, m)

\* C15: the line optimize_counterpoint returns has one note per
\* cantus-firmus note; the note at each index carries the duration and the
\* position of the input note at that index, and its pitch is the lowest
\* pitch in 0..127 of the highest single-note fitness there, whatever the
\* input pitches.
C15_RefinementIgnoresPitches ==
    (Returned({"optimize_counterpoint"}) /\ ret.raised = "none") =>
        /\ Len(ret.value) = Len(call.cantus_firmus)
        /\ \A k \in 1..Len(call.cantus_firmus) :
               /\ ret.value[k].duration = call.counterpoint[k].duration
               /\ ret.value[k].position = call.counterpoint[k].position
               /\ ret.value[k].pitch =
                      LowestBestPitch(call.counterpoint[k], call.cantus_firmus[k],
                                      call.species, call.mode)

\* C16: for FIRST and a cantus firmus of at least two notes, every vertical
\* interval of the line generate_counterpoint returns is a perfect
\* consonance (0 or 7), so its penultimate interval is neither 8 nor 9,
\* check_first_species_rules rejects it and its fitness is 0.0, also when
\* the search had found a line of fitness 1.0.
C16_RefinedLineRejected ==
    (species = "FIRST" /\ Len(cf) >= 2 /\ pc = "done") =>
        /\ Len(result) = Len(cf)
        /\ \A k \in 1..Len(result) :
               (Abs(result[k].pitch - cf[k].pitch) % 12) \in {0, 7}
        /\ (Abs(result[Len(result) - 1].pitch - cf[Len(cf) - 1].pitch) % 12) \notin {8, 9}
        /\ check_first_species_rules(result, cf).raised = "none"
        /\ ~check_first_species_rules(result, cf).valid
        /\ evaluate_fitness(result, cf, species, mode) = [raised |-> "none", value |-> 0]

\* a first-species run over three notes that returned after the search had
\* found a line of fitness 1.0
C16_Witness ==
    /\ species = "FIRST"
    /\ Len(cf) = 3
    /\ pc = "done"
    /\ perfect
    /\ evaluate_fitness(best, cf, species, mode).value = 100

====
